---- MODULE Spec2Model ----
(***************************************************************************)
(* The allocation pool manager of src/app.py: a process-wide pool          *)
(* (_chunks) of groups of memory blocks, guarded by one lock (_mem_lock),  *)
(* served by the handlers mem_status, mem_add, mem_set, mem_free and       *)
(* mem_clear, which Flask runs on concurrent threads (threaded=True).      *)
(*                                                                         *)
(* A block bytearray(take * 1024 * 1024) is represented by take, its       *)
(* length in MiB: the only use the code makes of a block is                *)
(* len(b) // (1024 * 1024), which is take again.                           *)
(* A query-string parameter is the sequence of its characters, and int()   *)
(* is modelled on those characters (ParseInt).                             *)
(***************************************************************************)
EXTENDS Integers, Sequences, FiniteSets, TLC

\* ------------------------------------------------------------ constants

\* CHUNK_MB_DEFAULT = 8
CHUNK_MB_DEFAULT == 8

\* "if mb > 4096" in mem_add
ADD_LIMIT_MB == 4096

\* request.args.get("mb", "100") in mem_add
ADD_MB_DEFAULT == 100

\* request.args.get("mb", "0") in mem_set and mem_free
ZERO_MB_DEFAULT == 0

\* ------------------------------------------------------------ bounds

\* Concurrent request-handling threads.
NThreads == 2

\* Requests started in one behaviour of Spec, the concurrent specification.
MaxRequests == 2

\* Requests started in one behaviour of SpecSeq, one thread serving them in turn.
MaxSeqRequests == 3

\* Requests started in one behaviour of SpecLimit, requests at the ceiling.
MaxLimitRequests == 2

\* Requests started in a run of SpecPair.
MaxPairRequests == 3

Threads == 1..NThreads

\* The value of the lock when no thread holds it.
NoThread == 0

\* ------------------------------------------------------------ int(), str()

\* A text (a str) is the sequence of its characters, a character is its
\* Unicode code point. Texts are written with the printable ASCII characters,
\* " " (32) to "~" (126), the grave accent (96) left out; any other character
\* is written as its code point.
AsciiChars ==
  <<
     " ", "!", "\"", "#", "$", "%", "&", "'", "(", ")", "*", "+",
     ",", "-", ".", "/", "0", "1", "2", "3", "4", "5", "6", "7",
     "8", "9", ":", ";", "<", "=", ">", "?", "@", "A", "B", "C",
     "D", "E", "F", "G", "H", "I", "J", "K", "L", "M", "N", "O",
     "P", "Q", "R", "S", "T", "U", "V", "W", "X", "Y", "Z", "[",
     "\\", "]", "^", "_", "", "a", "b", "c", "d", "e", "f", "g",
     "h", "i", "j", "k", "l", "m", "n", "o", "p", "q", "r", "s",
     "t", "u", "v", "w", "x", "y", "z", "{", "|", "}", "~"
  >>

\* ord(c) of a printable ASCII character.
Ord(c) == 31 + (CHOOSE i \in 1..Len(AsciiChars) : AsciiChars[i] = c)

\* The text written with the characters of s.
Text(s) == [i \in 1..Len(s) |-> Ord(s[i])]

\* sys.get_int_max_str_digits(): int() raises ValueError for a text of more
\* decimal digits (CPython 3.11).
INT_MAX_STR_DIGITS == 4300

\* The characters with decimal digit value 0 (Unicode category Nd): each is
\* followed by the digits 1 to 9 of its script.
DigitZeros ==
    {
     48, 1632, 1776, 1984, 2406, 2534, 2662, 2790,
     2918, 3046, 3174, 3302, 3430, 3558, 3664, 3792,
     3872, 4160, 4240, 6112, 6160, 6470, 6608, 6784,
     6800, 6992, 7088, 7232, 7248, 42528, 43216, 43264,
     43472, 43504, 43600, 44016, 65296, 66720, 68912, 69734,
     69872, 69942, 70096, 70384, 70736, 70864, 71248, 71360,
     71472, 71904, 72016, 72784, 73040, 73120, 92768, 92864,
     93008, 120782, 120792, 120802, 120812, 120822, 123200, 123632,
     125264, 130032
    }

\* int() reads the decimal digits of every script.
DigitChars == UNION {z..(z + 9) : z \in DigitZeros}

IsDigit(c) == c \in DigitChars

DigitVal(c) == c - (CHOOSE z \in DigitZeros : c \in z..(z + 9))

\* The whitespace int() strips: \t \n \v \f \r, space, and the whitespace
\* beyond ASCII (NEL, no-break space, the Unicode space separators, the line
\* and paragraph separators). The controls 28..31 are not stripped.
SpaceChars ==
    {9, 10, 11, 12, 13, 32, 133, 160, 5760} \cup (8192..8202)
        \cup {8232, 8233, 8239, 8287, 12288}

IsSpace(c) == c \in SpaceChars

LStrip(s) ==
    IF \A i \in 1..Len(s) : IsSpace(s[i]) THEN <<>>
    ELSE SubSeq(s, CHOOSE i \in 1..Len(s) :
                      ~IsSpace(s[i]) /\ \A j \in 1..(i - 1) : IsSpace(s[j]),
                Len(s))

RStrip(s) ==
    IF \A i \in 1..Len(s) : IsSpace(s[i]) THEN <<>>
    ELSE SubSeq(s, 1, CHOOSE i \in 1..Len(s) :
                         ~IsSpace(s[i]) /\ \A j \in (i + 1)..Len(s) : IsSpace(s[j]))

SignChars == {Ord("+"), Ord("-")}

Minus == Ord("-")

Underscore == Ord("_")

Zero == Ord("0")

\* The literal without its optional sign.
Unsigned(s) == IF s # <<>> /\ Head(s) \in SignChars THEN Tail(s) ELSE s

\* Whether int(s) returns: optional surrounding whitespace, an optional sign,
\* then decimal digits, where single underscores may separate digits, and no
\* more than INT_MAX_STR_DIGITS digits.
IsIntLiteral(s) ==
    LET u == Unsigned(RStrip(LStrip(s)))
    IN  /\ u # <<>>
        /\ \A i \in 1..Len(u) : IsDigit(u[i]) \/ u[i] = Underscore
        /\ IsDigit(u[1])
        /\ IsDigit(u[Len(u)])
        /\ \A i \in 1..(Len(u) - 1) : ~(u[i] = Underscore /\ u[i + 1] = Underscore)
        /\ Cardinality({i \in 1..Len(u) : IsDigit(u[i])}) <= INT_MAX_STR_DIGITS

\* The digits of u from its first digit that is not a zero.
Significant(u) ==
    LET d == SelectSeq(u, IsDigit)
    IN  IF \A i \in 1..Len(d) : DigitVal(d[i]) = 0 THEN <<>>
        ELSE SubSeq(d, CHOOSE i \in 1..Len(d) :
                          DigitVal(d[i]) # 0 /\ \A j \in 1..(i - 1) : DigitVal(d[j]) = 0,
                    Len(d))

\* The value of the digits d after those of value acc. (Python's integers are
\* unbounded; the texts of the specifications have values below 2^31.)
RECURSIVE DigitsValue(_, _)
DigitsValue(d, acc) ==
    IF d = <<>> THEN acc
    ELSE DigitsValue(Tail(d), 10 * acc + DigitVal(Head(d)))

\* int(s): ok is FALSE where int raises ValueError.
ParseInt(s) ==
    LET t == RStrip(LStrip(s))
    IN  IF IsIntLiteral(s)
        THEN [ok |-> TRUE,
              val |-> IF Head(t) = Minus THEN 0 - DigitsValue(Significant(t), 0)
                      ELSE DigitsValue(Significant(t), 0)]
        ELSE [ok |-> FALSE, val |-> 0]

\* str(n) of a natural number.
RECURSIVE Str(_)
Str(n) ==
    IF n < 10 THEN <<Zero + n>>
    ELSE Str(n \div 10) \o <<Zero + (n % 10)>>

\* request.args.get(key, default): args is the query string, a set of
\* <<key, text>> pairs with at most one pair for a key.
ArgsGet(args, key, default) ==
    IF \E p \in args : p[1] = key
    THEN (CHOOSE p \in args : p[1] = key)[2]
    ELSE default

\* ------------------------------------------------------------ the pool

Min(a, b) == IF a <= b THEN a ELSE b

\* sum(s[lo..hi]), by halves: a group may hold hundreds of blocks.
RECURSIVE SumRange(_, _, _)
SumRange(s, lo, hi) ==
    IF lo > hi THEN 0
    ELSE IF lo = hi THEN s[lo]
    ELSE LET mid == (lo + hi) \div 2
         IN  SumRange(s, lo, mid) + SumRange(s, mid + 1, hi)

SumSeq(s) == SumRange(s, 1, Len(s))

RECURSIVE SumGroups(_)
SumGroups(p) == IF p = <<>> THEN 0 ELSE SumSeq(Head(p)) + SumGroups(Tail(p))

\* _current_mb() on a pool p.
CurrentMb(p) == SumGroups(p)

\* Mutant of AllocIter: every block is a full chunk, take = chunk_mb.
AllocIterNoMin(f, chunk_mb) ==
    [f EXCEPT !.blocks = Append(f.blocks, chunk_mb), !.remain = f.remain - chunk_mb]

\* One iteration of _alloc_mb's loop on the locals (blocks, remain).
AllocIter(f, chunk_mb) ==
    LET take == Min(chunk_mb, f.remain)
    IN  [f EXCEPT !.blocks = Append(f.blocks, take), !.remain = f.remain - take]

\* Mutant of PopBlock: group.pop(0), the group's oldest block goes first.
PopBlockFront(p) ==
    LET g == p[Len(p)]
    IN  [p EXCEPT ![Len(p)] = SubSeq(g, 2, Len(g))]

\* group.pop() on the last group of pool p: the pool without that block.
PopBlock(p) ==
    LET g == p[Len(p)]
    IN  [p EXCEPT ![Len(p)] = SubSeq(g, 1, Len(g) - 1)]

\* Mutant of PoppedBlock: the size subtracted is that of the group's first block.
PoppedBlockFirst(p) == LET g == p[Len(p)] IN g[1]

\* The block group.pop() returns.
PoppedBlock(p) == LET g == p[Len(p)] IN g[Len(g)]

\* _chunks.pop()
PopGroup(p) == SubSeq(p, 1, Len(p) - 1)

\* ------------------------------------------------------------ responses

ERR_POSITIVE == "must be > 0"
ERR_NONNEG == "must be >= 0"
ERR_LIMIT == "add limit 4096MB"
ERR_INTEGER == "must be integer"
NOTE_MET == "target already met"

NoResp ==
    [status |-> 0, ok |-> FALSE, error |-> "", total_mb |-> 0, note |-> "",
     added_mb |-> 0, chunk_mb |-> 0, freed_request_mb |-> 0, allocated_mb |-> 0,
     groups |-> 0]

\* jsonify(error=...), 400
ErrorResp(e) == [NoResp EXCEPT !.status = 400, !.error = e]

\* jsonify(ok=True, total_mb=total, ...)
OkResp(total) == [NoResp EXCEPT !.status = 200, !.ok = TRUE, !.total_mb = total]

\* An exception that leaves the handler: Flask answers 500.
UnhandledResp == [NoResp EXCEPT !.status = 500, !.error = "MemoryError"]

\* ------------------------------------------------------------ state

VARIABLES
    chunks,     \* _chunks: the pool, a sequence of groups of block sizes
    mem_lock,   \* _mem_lock: the thread holding it, or NoThread
    pc,         \* each thread's position in its handler
    frame,      \* each thread's handler locals
    resp,       \* each thread's response, once its handler has returned
    nreq,       \* requests started so far
    pre,        \* history: what the thread found when it acquired the lock
    lastAdd     \* history: the handler that last changed or set the pool,
                \* if a mem_add: its mb and the pool it found

vars == <<chunks, mem_lock, pc, frame, resp, nreq, pre, lastAdd>>

\* request.args is args; the other fields are the handler's local variables.
IdleFrame ==
    [op |-> "none", args |-> {}, mb |-> 0, chunk |-> 0, target |-> 0,
     blocks |-> <<>>, remain |-> 0, to_free |-> 0, curr |-> 0]

NoAdd == [valid |-> FALSE, mb |-> 0, pool |-> <<>>]

\* took: the request has acquired the lock; pool, add: chunks and lastAdd then.
NoPre == [took |-> FALSE, pool |-> <<>>, add |-> NoAdd]

Init ==
    /\ chunks = <<>>
    /\ mem_lock = NoThread
    /\ pc = [t \in Threads |-> "idle"]
    /\ frame = [t \in Threads |-> IdleFrame]
    /\ resp = [t \in Threads |-> NoResp]
    /\ nreq = 0
    /\ pre = [t \in Threads |-> NoPre]
    /\ lastAdd = NoAdd

\* The handler returns: resp is its response.
Return(t, r) ==
    /\ pc' = [pc EXCEPT ![t] = "done"]
    /\ resp' = [resp EXCEPT ![t] = r]

\* "with _mem_lock:" entered by thread t.
Acquire(t) ==
    /\ mem_lock = NoThread
    /\ mem_lock' = t
    /\ pre' = [pre EXCEPT ![t] = [took |-> TRUE, pool |-> chunks, add |-> lastAdd]]

\* "with _mem_lock:" left by thread t, on any path: release() unlocks the
\* lock. (That t is the thread holding it is a property of the handlers, not a
\* test the code makes.)
Release(t) == mem_lock' = NoThread

\* ------------------------------------------------------------ mem_add

\* Mutant of AddCheck: the ceiling test is mb >= 4096.
AddCheckOffByOne(args) ==
    LET m == ParseInt(ArgsGet(args, "mb", Str(ADD_MB_DEFAULT)))
        c == ParseInt(ArgsGet(args, "chunk", Str(CHUNK_MB_DEFAULT)))
    IN  IF ~m.ok \/ ~c.ok THEN ERR_INTEGER
        ELSE IF m.val <= 0 \/ c.val <= 0 THEN ERR_POSITIVE
        ELSE IF m.val >= ADD_LIMIT_MB THEN ERR_LIMIT
        ELSE ""

\* Lines 36-45: what the argument checks of mem_add answer, "" when they pass.
AddCheck(args) ==
    LET m == ParseInt(ArgsGet(args, "mb", Str(ADD_MB_DEFAULT)))
        c == ParseInt(ArgsGet(args, "chunk", Str(CHUNK_MB_DEFAULT)))
    IN  IF ~m.ok \/ ~c.ok THEN ERR_INTEGER
        ELSE IF m.val <= 0 \/ c.val <= 0 THEN ERR_POSITIVE
        ELSE IF m.val > ADD_LIMIT_MB THEN ERR_LIMIT
        ELSE ""

\* mem_add up to the call of _alloc_mb.
MemAddRequest(t, args) ==
    /\ pc[t] = "idle"
    /\ nreq' = nreq + 1
    /\ IF AddCheck(args) # ""
       THEN /\ Return(t, ErrorResp(AddCheck(args)))
            /\ frame' = [frame EXCEPT ![t].op = "add", ![t].args = args]
       ELSE LET mb == ParseInt(ArgsGet(args, "mb", Str(ADD_MB_DEFAULT))).val
                chunk == ParseInt(ArgsGet(args, "chunk", Str(CHUNK_MB_DEFAULT))).val
            IN  /\ frame' = [frame EXCEPT ![t] =
                        [IdleFrame EXCEPT !.op = "add", !.args = args, !.mb = mb, !.chunk = chunk,
                                          !.remain = mb]]
                /\ pc' = [pc EXCEPT ![t] = "add_alloc"]
                /\ resp' = resp
    /\ UNCHANGED <<chunks, mem_lock, pre, lastAdd>>

\* Mutant of MemAddAlloc: the loop's test is remain >= chunk_mb, the smaller
\* last block is never allocated.
MemAddAllocDropTail(t) ==
    /\ pc[t] = "add_alloc"
    /\ IF frame[t].remain >= frame[t].chunk
       THEN /\ frame' = [frame EXCEPT ![t] = AllocIter(frame[t], frame[t].chunk)]
            /\ pc' = pc
       ELSE /\ frame' = frame
            /\ pc' = [pc EXCEPT ![t] = "add_lock"]
    /\ UNCHANGED <<chunks, mem_lock, resp, nreq, pre, lastAdd>>

\* _alloc_mb(mb, chunk) called by mem_add, outside the lock: one loop test.
MemAddAlloc(t) ==
    /\ pc[t] = "add_alloc"
    /\ IF frame[t].remain > 0
       THEN /\ frame' = [frame EXCEPT ![t] = AllocIter(frame[t], frame[t].chunk)]
            /\ pc' = pc
       ELSE /\ frame' = frame
            /\ pc' = [pc EXCEPT ![t] = "add_lock"]
    /\ UNCHANGED <<chunks, mem_lock, resp, nreq, pre, lastAdd>>

\* bytearray(...) raises MemoryError in mem_add's _alloc_mb: nothing catches it.
MemAddAllocFail(t) ==
    /\ pc[t] = "add_alloc"
    /\ frame[t].remain > 0
    /\ Return(t, UnhandledResp)
    /\ frame' = [frame EXCEPT ![t].blocks = <<>>]
    /\ UNCHANGED <<chunks, mem_lock, nreq, pre, lastAdd>>

\* Line 48.
MemAddLock(t) ==
    /\ pc[t] = "add_lock"
    /\ Acquire(t)
    /\ pc' = [pc EXCEPT ![t] = "add_append"]
    /\ UNCHANGED <<chunks, frame, resp, nreq, lastAdd>>

\* Line 49.
MemAddAppend(t) ==
    /\ pc[t] = "add_append"
    /\ chunks' = Append(chunks, frame[t].blocks)
    /\ pc' = [pc EXCEPT ![t] = "add_total"]
    /\ UNCHANGED <<mem_lock, frame, resp, nreq, pre, lastAdd>>

\* Lines 50-51.
MemAddTotal(t) ==
    /\ pc[t] = "add_total"
    /\ Release(t)
    /\ Return(t, [OkResp(CurrentMb(chunks)) EXCEPT !.added_mb = frame[t].mb,
                                                   !.chunk_mb = frame[t].chunk])
    /\ lastAdd' = [valid |-> TRUE, mb |-> frame[t].mb, pool |-> pre[t].pool]
    /\ UNCHANGED <<chunks, frame, nreq, pre>>

\* The response has been sent: the thread is free for another request.
Reply(t) ==
    /\ pc[t] = "done"
    /\ pc' = [pc EXCEPT ![t] = "idle"]
    /\ frame' = [frame EXCEPT ![t] = IdleFrame]
    /\ resp' = [resp EXCEPT ![t] = NoResp]
    /\ pre' = [pre EXCEPT ![t] = NoPre]
    /\ UNCHANGED <<chunks, mem_lock, nreq, lastAdd>>

\* ------------------------------------------------------------ mem_set

\* Lines 56-61: what the argument checks of mem_set answer, "" when they pass.
SetCheck(args) ==
    LET m == ParseInt(ArgsGet(args, "mb", Str(ZERO_MB_DEFAULT)))
    IN  IF ~m.ok THEN ERR_INTEGER
        ELSE IF m.val < 0 THEN ERR_NONNEG
        ELSE ""

\* mem_set up to "with _mem_lock:".
MemSetRequest(t, args) ==
    /\ pc[t] = "idle"
    /\ nreq' = nreq + 1
    /\ IF SetCheck(args) # ""
       THEN /\ Return(t, ErrorResp(SetCheck(args)))
            /\ frame' = [frame EXCEPT ![t].op = "set", ![t].args = args]
       ELSE /\ frame' = [frame EXCEPT ![t] =
                    [IdleFrame EXCEPT !.op = "set", !.args = args,
                        !.target = ParseInt(ArgsGet(args, "mb", Str(ZERO_MB_DEFAULT))).val]]
            /\ pc' = [pc EXCEPT ![t] = "set_lock"]
            /\ resp' = resp
    /\ UNCHANGED <<chunks, mem_lock, pre, lastAdd>>

\* Mutant of MemSetLock: Converge goes on without taking the lock.
MemSetLockNoWait(t) ==
    /\ pc[t] = "set_lock"
    /\ pre' = [pre EXCEPT ![t] = [took |-> TRUE, pool |-> chunks, add |-> lastAdd]]
    /\ pc' = [pc EXCEPT ![t] = "set_curr"]
    /\ UNCHANGED <<chunks, mem_lock, frame, resp, nreq, lastAdd>>

\* Line 63.
MemSetLock(t) ==
    /\ pc[t] = "set_lock"
    /\ Acquire(t)
    /\ pc' = [pc EXCEPT ![t] = "set_curr"]
    /\ UNCHANGED <<chunks, frame, resp, nreq, lastAdd>>

\* Mutant of MemSetCurr: the first test is target <= curr.
MemSetCurrLe(t) ==
    /\ pc[t] = "set_curr"
    /\ LET curr == CurrentMb(chunks)
           target == frame[t].target
       IN  IF target <= curr
           THEN /\ Release(t)
                /\ Return(t, [OkResp(curr) EXCEPT !.note = NOTE_MET])
                /\ frame' = [frame EXCEPT ![t].curr = curr]
                /\ lastAdd' = NoAdd
           ELSE /\ frame' = [frame EXCEPT ![t].curr = curr,
                                 ![t].remain = target - curr,
                                 ![t].to_free = 0]
                /\ pc' = [pc EXCEPT ![t] = "set_alloc"]
                /\ UNCHANGED <<mem_lock, resp, lastAdd>>
    /\ UNCHANGED <<chunks, nreq, pre>>

\* Mutant of MemSetCurr: the equal branch returns with the lock still held.
MemSetCurrLeak(t) ==
    /\ pc[t] = "set_curr"
    /\ LET curr == CurrentMb(chunks)
           target == frame[t].target
       IN  IF target = curr
           THEN /\ mem_lock' = mem_lock
                /\ Return(t, [OkResp(curr) EXCEPT !.note = NOTE_MET])
                /\ frame' = [frame EXCEPT ![t].curr = curr]
                /\ lastAdd' = NoAdd
           ELSE /\ frame' = [frame EXCEPT ![t].curr = curr,
                                 ![t].remain = IF target > curr THEN target - curr ELSE 0,
                                 ![t].to_free = IF target > curr THEN 0 ELSE curr - target]
                /\ pc' = [pc EXCEPT ![t] = IF target > curr THEN "set_alloc" ELSE "set_outer"]
                /\ UNCHANGED <<mem_lock, resp, lastAdd>>
    /\ UNCHANGED <<chunks, nreq, pre>>

\* Lines 64-68 and 72: read the total and branch on it. The equal branch
\* returns from inside the with block.
MemSetCurr(t) ==
    /\ pc[t] = "set_curr"
    /\ LET curr == CurrentMb(chunks)
           target == frame[t].target
       IN  IF target = curr
           THEN /\ Release(t)
                /\ Return(t, [OkResp(curr) EXCEPT !.note = NOTE_MET])
                /\ frame' = [frame EXCEPT ![t].curr = curr]
                /\ lastAdd' = NoAdd
           ELSE /\ frame' = [frame EXCEPT ![t].curr = curr,
                                 ![t].remain = IF target > curr THEN target - curr ELSE 0,
                                 ![t].to_free = IF target > curr THEN 0 ELSE curr - target]
                /\ pc' = [pc EXCEPT ![t] = IF target > curr THEN "set_alloc" ELSE "set_outer"]
                /\ UNCHANGED <<mem_lock, resp, lastAdd>>
    /\ UNCHANGED <<chunks, nreq, pre>>

\* Line 68: _alloc_mb(target - curr, CHUNK_MB_DEFAULT), inside the lock.
MemSetAlloc(t) ==
    /\ pc[t] = "set_alloc"
    /\ IF frame[t].remain > 0
       THEN /\ frame' = [frame EXCEPT ![t] = AllocIter(frame[t], CHUNK_MB_DEFAULT)]
            /\ pc' = pc
       ELSE /\ frame' = frame
            /\ pc' = [pc EXCEPT ![t] = "set_append"]
    /\ UNCHANGED <<chunks, mem_lock, resp, nreq, pre, lastAdd>>

\* Mutant of MemSetAllocFail: the blocks built so far are appended as a group
\* before the exception leaves the handler.
MemSetAllocFailAppend(t) ==
    /\ pc[t] = "set_alloc"
    /\ frame[t].remain > 0
    /\ Release(t)
    /\ Return(t, UnhandledResp)
    /\ chunks' = Append(chunks, frame[t].blocks)
    /\ frame' = [frame EXCEPT ![t].blocks = <<>>]
    /\ lastAdd' = NoAdd
    /\ UNCHANGED <<nreq, pre>>

\* bytearray(...) raises MemoryError in mem_set's _alloc_mb: the with block
\* releases the lock and the exception leaves the handler.
MemSetAllocFail(t) ==
    /\ pc[t] = "set_alloc"
    /\ frame[t].remain > 0
    /\ Release(t)
    /\ Return(t, UnhandledResp)
    /\ frame' = [frame EXCEPT ![t].blocks = <<>>]
    /\ lastAdd' = NoAdd
    /\ UNCHANGED <<chunks, nreq, pre>>

\* Line 69.
MemSetAppend(t) ==
    /\ pc[t] = "set_append"
    /\ chunks' = Append(chunks, frame[t].blocks)
    /\ pc' = [pc EXCEPT ![t] = "set_total"]
    /\ UNCHANGED <<mem_lock, frame, resp, nreq, pre, lastAdd>>

\* Line 73 (and 74): the outer loop's test.
MemSetOuter(t) ==
    /\ pc[t] = "set_outer"
    /\ pc' = [pc EXCEPT ![t] =
            IF frame[t].to_free > 0 /\ chunks # <<>> THEN "set_inner" ELSE "set_total"]
    /\ UNCHANGED <<chunks, mem_lock, frame, resp, nreq, pre, lastAdd>>

\* Mutant of MemSetInner: a block larger than what is left to free is split,
\* the part not needed staying in the group.
MemSetInnerSplit(t) ==
    /\ pc[t] = "set_inner"
    /\ IF chunks[Len(chunks)] # <<>> /\ frame[t].to_free > 0
       THEN /\ chunks' =
                IF PoppedBlock(chunks) > frame[t].to_free
                THEN [PopBlock(chunks) EXCEPT ![Len(chunks)] =
                        Append(@, PoppedBlock(chunks) - frame[t].to_free)]
                ELSE PopBlock(chunks)
            /\ frame' = [frame EXCEPT ![t].to_free = @ - PoppedBlock(chunks)]
            /\ pc' = pc
       ELSE /\ UNCHANGED <<chunks, frame>>
            /\ pc' = [pc EXCEPT ![t] = "set_prune"]
    /\ UNCHANGED <<mem_lock, resp, nreq, pre, lastAdd>>

\* Lines 75-77: the inner loop's test and one pop. group is _chunks[-1].
MemSetInner(t) ==
    /\ pc[t] = "set_inner"
    /\ IF chunks[Len(chunks)] # <<>> /\ frame[t].to_free > 0
       THEN /\ chunks' = PopBlock(chunks)
            /\ frame' = [frame EXCEPT ![t].to_free = @ - PoppedBlock(chunks)]
            /\ pc' = pc
       ELSE /\ UNCHANGED <<chunks, frame>>
            /\ pc' = [pc EXCEPT ![t] = "set_prune"]
    /\ UNCHANGED <<mem_lock, resp, nreq, pre, lastAdd>>

\* Mutant of MemSetPrune: an emptied group stays in the pool.
MemSetPruneNever(t) ==
    /\ pc[t] = "set_prune"
    /\ pc' = [pc EXCEPT ![t] = "set_outer"]
    /\ UNCHANGED <<chunks, mem_lock, frame, resp, nreq, pre, lastAdd>>

\* Lines 78-79.
MemSetPrune(t) ==
    /\ pc[t] = "set_prune"
    /\ chunks' = IF chunks[Len(chunks)] = <<>> THEN PopGroup(chunks) ELSE chunks
    /\ pc' = [pc EXCEPT ![t] = "set_outer"]
    /\ UNCHANGED <<mem_lock, frame, resp, nreq, pre, lastAdd>>

\* Lines 80-81.
MemSetTotal(t) ==
    /\ pc[t] = "set_total"
    /\ Release(t)
    /\ Return(t, OkResp(CurrentMb(chunks)))
    /\ lastAdd' = NoAdd
    /\ UNCHANGED <<chunks, frame, nreq, pre>>

\* ------------------------------------------------------------ mem_free

\* Mutant of FreeCheck: the range test is mb < 0.
FreeCheckNegative(args) ==
    LET m == ParseInt(ArgsGet(args, "mb", Str(ZERO_MB_DEFAULT)))
    IN  IF ~m.ok THEN ERR_INTEGER
        ELSE IF m.val < 0 THEN ERR_POSITIVE
        ELSE ""

\* Lines 86-91: what the argument checks of mem_free answer, "" when they pass.
FreeCheck(args) ==
    LET m == ParseInt(ArgsGet(args, "mb", Str(ZERO_MB_DEFAULT)))
    IN  IF ~m.ok THEN ERR_INTEGER
        ELSE IF m.val <= 0 THEN ERR_POSITIVE
        ELSE ""

\* mem_free up to "with _mem_lock:".
MemFreeRequest(t, args) ==
    /\ pc[t] = "idle"
    /\ nreq' = nreq + 1
    /\ IF FreeCheck(args) # ""
       THEN /\ Return(t, ErrorResp(FreeCheck(args)))
            /\ frame' = [frame EXCEPT ![t].op = "free", ![t].args = args]
       ELSE /\ frame' = [frame EXCEPT ![t] =
                    [IdleFrame EXCEPT !.op = "free", !.args = args,
                        !.mb = ParseInt(ArgsGet(args, "mb", Str(ZERO_MB_DEFAULT))).val]]
            /\ pc' = [pc EXCEPT ![t] = "free_lock"]
            /\ resp' = resp
    /\ UNCHANGED <<chunks, mem_lock, pre, lastAdd>>

\* Lines 93-94.
MemFreeLock(t) ==
    /\ pc[t] = "free_lock"
    /\ Acquire(t)
    /\ frame' = [frame EXCEPT ![t].remain = frame[t].mb]
    /\ pc' = [pc EXCEPT ![t] = "free_outer"]
    /\ UNCHANGED <<chunks, resp, nreq, lastAdd>>

\* Mutant of MemFreeOuter: the outer loop is an if, entered once.
MemFreeOuterOnce(t) ==
    /\ pc[t] = "free_outer"
    /\ pc' = [pc EXCEPT ![t] =
            IF frame[t].remain > 0 /\ chunks # <<>> /\ chunks = pre[t].pool
            THEN "free_inner" ELSE "free_total"]
    /\ UNCHANGED <<chunks, mem_lock, frame, resp, nreq, pre, lastAdd>>

\* Line 95 (and 96): the outer loop's test.
MemFreeOuter(t) ==
    /\ pc[t] = "free_outer"
    /\ pc' = [pc EXCEPT ![t] =
            IF frame[t].remain > 0 /\ chunks # <<>> THEN "free_inner" ELSE "free_total"]
    /\ UNCHANGED <<chunks, mem_lock, frame, resp, nreq, pre, lastAdd>>

\* Mutant of MemFreeInner: the inner loop's test is remain >= 0.
MemFreeInnerGe(t) ==
    /\ pc[t] = "free_inner"
    /\ IF chunks[Len(chunks)] # <<>> /\ frame[t].remain >= 0
       THEN /\ chunks' = PopBlock(chunks)
            /\ frame' = [frame EXCEPT ![t].remain = @ - PoppedBlock(chunks)]
            /\ pc' = pc
       ELSE /\ UNCHANGED <<chunks, frame>>
            /\ pc' = [pc EXCEPT ![t] = "free_prune"]
    /\ UNCHANGED <<mem_lock, resp, nreq, pre, lastAdd>>

\* Lines 97-99: the inner loop's test and one pop. group is _chunks[-1].
MemFreeInner(t) ==
    /\ pc[t] = "free_inner"
    /\ IF chunks[Len(chunks)] # <<>> /\ frame[t].remain > 0
       THEN /\ chunks' = PopBlock(chunks)
            /\ frame' = [frame EXCEPT ![t].remain = @ - PoppedBlock(chunks)]
            /\ pc' = pc
       ELSE /\ UNCHANGED <<chunks, frame>>
            /\ pc' = [pc EXCEPT ![t] = "free_prune"]
    /\ UNCHANGED <<mem_lock, resp, nreq, pre, lastAdd>>

\* Mutant of MemFreePrune: an emptied group stays in the pool.
MemFreePruneNever(t) ==
    /\ pc[t] = "free_prune"
    /\ pc' = [pc EXCEPT ![t] = "free_outer"]
    /\ UNCHANGED <<chunks, mem_lock, frame, resp, nreq, pre, lastAdd>>

\* Lines 100-101.
MemFreePrune(t) ==
    /\ pc[t] = "free_prune"
    /\ chunks' = IF chunks[Len(chunks)] = <<>> THEN PopGroup(chunks) ELSE chunks
    /\ pc' = [pc EXCEPT ![t] = "free_outer"]
    /\ UNCHANGED <<mem_lock, frame, resp, nreq, pre, lastAdd>>

\* Lines 102-103.
MemFreeTotal(t) ==
    /\ pc[t] = "free_total"
    /\ Release(t)
    /\ Return(t, [OkResp(CurrentMb(chunks)) EXCEPT !.freed_request_mb = frame[t].mb])
    /\ lastAdd' = NoAdd
    /\ UNCHANGED <<chunks, frame, nreq, pre>>

\* ------------------------------------------------------------ mem_clear

\* mem_clear takes no parameter: up to "with _mem_lock:".
MemClearRequest(t) ==
    /\ pc[t] = "idle"
    /\ nreq' = nreq + 1
    /\ frame' = [frame EXCEPT ![t] = [IdleFrame EXCEPT !.op = "clear"]]
    /\ pc' = [pc EXCEPT ![t] = "clear_lock"]
    /\ UNCHANGED <<chunks, mem_lock, resp, pre, lastAdd>>

\* Line 108.
MemClearLock(t) ==
    /\ pc[t] = "clear_lock"
    /\ Acquire(t)
    /\ pc' = [pc EXCEPT ![t] = "clear_clear"]
    /\ UNCHANGED <<chunks, frame, resp, nreq, lastAdd>>

\* Mutant of MemClear: only the last group is dropped.
MemClearLast(t) ==
    /\ pc[t] = "clear_clear"
    /\ chunks' = IF chunks = <<>> THEN <<>> ELSE PopGroup(chunks)
    /\ pc' = [pc EXCEPT ![t] = "clear_total"]
    /\ UNCHANGED <<mem_lock, frame, resp, nreq, pre, lastAdd>>

\* Line 109.
MemClear(t) ==
    /\ pc[t] = "clear_clear"
    /\ chunks' = <<>>
    /\ pc' = [pc EXCEPT ![t] = "clear_total"]
    /\ UNCHANGED <<mem_lock, frame, resp, nreq, pre, lastAdd>>

\* Lines 110-111.
MemClearTotal(t) ==
    /\ pc[t] = "clear_total"
    /\ Release(t)
    /\ Return(t, OkResp(CurrentMb(chunks)))
    /\ lastAdd' = NoAdd
    /\ UNCHANGED <<chunks, frame, nreq, pre>>

\* ------------------------------------------------------------ mem_status

\* mem_status takes no parameter: up to "with _mem_lock:".
MemStatusRequest(t) ==
    /\ pc[t] = "idle"
    /\ nreq' = nreq + 1
    /\ frame' = [frame EXCEPT ![t] = [IdleFrame EXCEPT !.op = "status"]]
    /\ pc' = [pc EXCEPT ![t] = "status_lock"]
    /\ UNCHANGED <<chunks, mem_lock, resp, pre, lastAdd>>

\* Mutant of MemStatusLock: the query reads the pool without taking the lock.
MemStatusLockNoWait(t) ==
    /\ pc[t] = "status_lock"
    /\ pre' = [pre EXCEPT ![t] = [took |-> TRUE, pool |-> chunks, add |-> lastAdd]]
    /\ pc' = [pc EXCEPT ![t] = "status_read"]
    /\ UNCHANGED <<chunks, mem_lock, frame, resp, nreq, lastAdd>>

\* Line 26.
MemStatusLock(t) ==
    /\ pc[t] = "status_lock"
    /\ Acquire(t)
    /\ pc' = [pc EXCEPT ![t] = "status_read"]
    /\ UNCHANGED <<chunks, frame, resp, nreq, lastAdd>>

\* Lines 27-31. A query leaves lastAdd as it is: it changes nothing.
MemStatusRead(t) ==
    /\ pc[t] = "status_read"
    /\ Release(t)
    /\ Return(t, [NoResp EXCEPT !.status = 200, !.allocated_mb = CurrentMb(chunks),
                                !.groups = Len(chunks)])
    /\ UNCHANGED <<chunks, frame, nreq, pre, lastAdd>>

\* ------------------------------------------------------------ requests

\* The query string with the given mb and chunk texts; NoText leaves one out.
NoText == <<-1>>

Query(mb, chunk) ==
    (IF mb = NoText THEN {} ELSE {<<"mb", mb>>})
        \cup (IF chunk = NoText THEN {} ELSE {<<"chunk", chunk>>})

\* A request arrives at an idle thread, while fewer than max have been started.
MemAddStart(t, max, mbs, cks) ==
    /\ nreq < max
    /\ \E m \in mbs, c \in cks : MemAddRequest(t, Query(m, c))

MemSetStart(t, max, mbs) ==
    /\ nreq < max
    /\ \E m \in mbs : MemSetRequest(t, Query(m, NoText))

MemFreeStart(t, max, mbs) ==
    /\ nreq < max
    /\ \E m \in mbs : MemFreeRequest(t, Query(m, NoText))

MemClearStart(t, max) ==
    /\ nreq < max
    /\ MemClearRequest(t)

MemStatusStart(t, max) ==
    /\ nreq < max
    /\ MemStatusRequest(t)

\* The steps of each handler after its request was read, allocation succeeding.
AddSteps(t) ==
    \/ MemAddAlloc(t)
    \/ MemAddLock(t)
    \/ MemAddAppend(t)
    \/ MemAddTotal(t)

SetSteps(t) ==
    \/ MemSetLock(t)
    \/ MemSetCurr(t)
    \/ MemSetAlloc(t)
    \/ MemSetAppend(t)
    \/ MemSetOuter(t)
    \/ MemSetInner(t)
    \/ MemSetPrune(t)
    \/ MemSetTotal(t)

FreeSteps(t) ==
    \/ MemFreeLock(t)
    \/ MemFreeOuter(t)
    \/ MemFreeInner(t)
    \/ MemFreePrune(t)
    \/ MemFreeTotal(t)

ClearSteps(t) ==
    \/ MemClearLock(t)
    \/ MemClear(t)
    \/ MemClearTotal(t)

StatusSteps(t) ==
    \/ MemStatusLock(t)
    \/ MemStatusRead(t)

\* bytearray() may raise MemoryError whenever a block is allocated.
FailSteps(t) ==
    \/ MemAddAllocFail(t)
    \/ MemSetAllocFail(t)

Step(t) ==
    \/ AddSteps(t)
    \/ SetSteps(t)
    \/ FreeSteps(t)
    \/ ClearSteps(t)
    \/ StatusSteps(t)
    \/ FailSteps(t)
    \/ Reply(t)

\* ---- Spec: concurrent requests with small parameters.

AddMbTexts == {Str(3), Str(5), Str(0)}

AddChunkTexts == {NoText, Str(2)}

SetMbTexts == {NoText, Str(4), Str(10), Text(<<"-", "1">>)}

FreeMbTexts == {NoText, Str(3), Str(5), Str(20)}

Next ==
    \E t \in Threads :
        \/ MemAddStart(t, MaxRequests, AddMbTexts, AddChunkTexts)
        \/ MemSetStart(t, MaxRequests, SetMbTexts)
        \/ MemFreeStart(t, MaxRequests, FreeMbTexts)
        \/ MemClearStart(t, MaxRequests)
        \/ MemStatusStart(t, MaxRequests)
        \/ Step(t)

Spec == Init /\ [][Next]_vars

\* ---- SpecSeq: one thread serves the requests one after another.

\* "\r1" then the fullwidth digit two and a no-break space: int() gives 12.
PaddedTwelve == <<13, Ord("1"), 65298, 160>>

SeqAddMbTexts ==
    {Str(3), Str(5), PaddedTwelve, Str(0), Text(<<"-", "2">>),
     Text(<<"3", ".", "5">>), <<>>}

\* "5" then the control character 28, which int() does not strip.
FiveThenControl == <<Ord("5"), 28>>

SeqAddChunkTexts ==
    {NoText, Str(2), Text(<<"+", "5">>), Str(0), Text(<<"-", "1">>), FiveThenControl}

\* One zero more than int() converts.
TooManyDigits == [i \in 1..(INT_MAX_STR_DIGITS + 1) |-> Zero]

SeqSetMbTexts ==
    {NoText, Str(4), Str(10), Str(21), Str(200), Str(600), Text(<<"-", "1">>),
     Text(<<"1", "e", "1">>)}

SeqFreeMbTexts ==
    {NoText, Str(1), Str(3), Str(5), Text(<<"1", "_", "2">>), Str(700), Text(<<"-", "4">>),
     Text(<<"0", "x", "5">>)}

SeqNext ==
    \/ MemAddStart(1, MaxSeqRequests, SeqAddMbTexts, SeqAddChunkTexts)
    \/ MemSetStart(1, MaxSeqRequests, SeqSetMbTexts)
    \/ MemFreeStart(1, MaxSeqRequests, SeqFreeMbTexts)
    \/ MemClearStart(1, MaxSeqRequests)
    \/ MemStatusStart(1, MaxSeqRequests)
    \/ Step(1)

SpecSeq == Init /\ [][SeqNext]_vars

\* ---- SpecLimit: one thread, requests at and above the ceiling of mem_add,
\* and a Converge whose text has more digits than int() converts.

LimitAddMbTexts == {Str(ADD_LIMIT_MB), Str(ADD_LIMIT_MB + 1)}

LimitAddChunkTexts == {NoText, Str(1024)}

LimitSetMbTexts == {Str(ADD_LIMIT_MB), Str(5000), TooManyDigits}

LimitNext ==
    \/ MemAddStart(1, MaxLimitRequests, LimitAddMbTexts, LimitAddChunkTexts)
    \/ MemSetStart(1, MaxLimitRequests, LimitSetMbTexts)
    \/ AddSteps(1)
    \/ SetSteps(1)
    \/ FailSteps(1)
    \/ Reply(1)

SpecLimit == Init /\ [][LimitNext]_vars

\* ---- SpecScenario: one thread runs the scenario of the testable properties,
\* every allocation succeeding.

Scenario ==
    << [op |-> "add", args |-> Query(Str(300), Str(8))],
       [op |-> "add", args |-> Query(Str(100), NoText)],
       [op |-> "free", args |-> Query(Str(250), NoText)],
       [op |-> "clear", args |-> {}] >>

ScenarioRequest(t) ==
    /\ nreq < Len(Scenario)
    /\ LET r == Scenario[nreq + 1]
       IN  CASE r.op = "add" -> MemAddRequest(t, r.args)
             [] r.op = "free" -> MemFreeRequest(t, r.args)
             [] r.op = "clear" -> MemClearRequest(t)

ScenarioNext ==
    \/ ScenarioRequest(1)
    \/ AddSteps(1)
    \/ FreeSteps(1)
    \/ ClearSteps(1)
    \/ Reply(1)

SpecScenario == Init /\ [][ScenarioNext]_vars

\* ---- SpecPair: two clients at once, three requests, so that a request can
\* arrive while another is part-way through a pool that is not empty.

PairAddMbTexts == {Str(3)}

PairAddChunkTexts == {Str(2)}

PairSetMbTexts == {Str(4), Str(10)}

PairFreeMbTexts == {Str(2)}

PairNext ==
    \E t \in {1, 2} :
        \/ MemAddStart(t, MaxPairRequests, PairAddMbTexts, PairAddChunkTexts)
        \/ MemSetStart(t, MaxPairRequests, PairSetMbTexts)
        \/ MemFreeStart(t, MaxPairRequests, PairFreeMbTexts)
        \/ MemClearStart(t, MaxPairRequests)
        \/ MemStatusStart(t, MaxPairRequests)
        \/ Step(t)

SpecPair == Init /\ [][PairNext]_vars

\* ---- SpecFair: SpecPair with the scheduling of a threaded server: a thread
\* that can run does run, and a thread waiting for the lock gets it if the
\* lock keeps becoming free.

LockSteps(t) ==
    \/ MemAddLock(t)
    \/ MemSetLock(t)
    \/ MemFreeLock(t)
    \/ MemClearLock(t)
    \/ MemStatusLock(t)

Fairness == \A t \in {1, 2} : WF_vars(Step(t)) /\ SF_vars(LockSteps(t))

SpecFair == Init /\ [][PairNext]_vars /\ Fairness

\* ------------------------------------------------------------ properties

\* Thread t's handler op has returned the response resp[t].
Done(t, op) == pc[t] = "done" /\ frame[t].op = op

\* Pool q is pool p after blocks were popped from its end: the groups of q are
\* those of p, in place, the last one possibly shortened but not emptied.
IsPoolPrefix(q, p) ==
    /\ Len(q) <= Len(p)
    /\ \A i \in 1..(Len(q) - 1) : q[i] = p[i]
    /\ q # <<>> =>
        LET g == q[Len(q)]
            h == p[Len(q)]
        IN  g # <<>> /\ Len(g) <= Len(h) /\ g = SubSeq(h, 1, Len(g))

\* C1: a valid Grow(mb, chunk) appends one group to the pool it finds when it
\* takes the lock, the groups already there kept as they are, the total grows
\* by exactly mb, whatever the chunk size, and the total it reports is that
\* total; also when other requests interleave.
C1_GrowAddsExactlyMb ==
    \A t \in Threads :
        /\ pc[t] = "add_total" =>
            /\ Len(chunks) = Len(pre[t].pool) + 1
            /\ SubSeq(chunks, 1, Len(pre[t].pool)) = pre[t].pool
            /\ CurrentMb(chunks) = CurrentMb(pre[t].pool) + frame[t].mb
        /\ (Done(t, "add") /\ resp[t].ok) =>
            /\ resp[t].total_mb = CurrentMb(pre[t].pool) + frame[t].mb
            /\ resp[t].added_mb = frame[t].mb

\* A Grow of 5 MB in chunks of 2 (2 does not divide 5) has returned, and the
\* pool it found held the group of another thread's Grow that was allocated
\* while this one was allocating.
C1_Witness ==
    \E t \in Threads, u \in Threads :
        /\ t # u
        /\ Done(t, "add") /\ resp[t].ok
        /\ frame[t].mb = 5 /\ frame[t].chunk = 2
        /\ Done(u, "add") /\ resp[u].ok /\ frame[u].chunk = CHUNK_MB_DEFAULT
        /\ pre[t].pool = <<frame[u].blocks>>
        /\ resp[t].total_mb = 5 + frame[u].mb

\* C2 as stated: from an empty pool, Grow(300, 8) gives total 300 and 1 group,
\* Grow(100) gives 400 and 2 groups, Shrink(250) gives total 150 with the
\* second group freed and the first reduced by 150, Clear gives 0 and 0 groups.
C2_ScenarioAsStated ==
    (pc[1] = "done" /\ resp[1].ok) =>
        /\ nreq = 1 => resp[1].total_mb = 300 /\ Len(chunks) = 1
        /\ nreq = 2 => resp[1].total_mb = 400 /\ Len(chunks) = 2
        /\ nreq = 3 =>
            /\ resp[1].total_mb = 150
            /\ Len(chunks) = 1
            /\ SumSeq(chunks[1]) = 300 - 150
        /\ nreq = 4 => resp[1].total_mb = 0 /\ Len(chunks) = 0

\* C2, amended: the Shrink(250) frees the second group (100 MB) and then whole
\* blocks of the first, its last block of 4 MB and 19 blocks of 8 MB, 156 MB:
\* the total is 144. Every request of the scenario succeeds.
C2_Scenario ==
    pc[1] = "done" =>
        /\ resp[1].ok
        /\ nreq = 1 => resp[1].total_mb = 300 /\ Len(chunks) = 1
        /\ nreq = 2 => resp[1].total_mb = 400 /\ Len(chunks) = 2
        /\ nreq = 3 =>
            /\ resp[1].total_mb = 144
            /\ resp[1].freed_request_mb = 250
            /\ Len(chunks) = 1
            /\ SumSeq(chunks[1]) = 300 - 156
            /\ Len(chunks[1]) = 38 - 20
            /\ \A i \in 1..Len(chunks[1]) : chunks[1][i] = 8
        /\ nreq = 4 => resp[1].total_mb = 0 /\ Len(chunks) = 0

\* The Shrink(250) of the scenario has returned.
C2_Witness ==
    /\ nreq = 3
    /\ Done(1, "free")
    /\ frame[1].mb = 250
    /\ CurrentMb(pre[1].pool) = 400 /\ Len(pre[1].pool) = 2
    /\ resp[1].total_mb = 144

\* C3: a Shrink(mb) that takes the lock right after a Grow(mb, chunk) released
\* it, no handler having changed the pool in between, leaves the pool that the
\* Grow found, group for group and block for block, and reports its total.
C3_GrowShrinkRoundTrip ==
    \A t \in Threads :
        (/\ frame[t].op = "free"
         /\ pre[t].took
         /\ pre[t].add.valid
         /\ pre[t].add.mb = frame[t].mb) =>
            /\ pc[t] = "free_total" => chunks = pre[t].add.pool
            /\ pc[t] = "done" =>
                /\ resp[t].ok
                /\ resp[t].total_mb = CurrentMb(pre[t].add.pool)

\* A Shrink(5) has returned that followed a Grow(5, 2), which built three
\* blocks on a pool that was not empty.
C3_Witness ==
    \E t \in Threads :
        /\ Done(t, "free") /\ resp[t].ok
        /\ frame[t].mb = 5
        /\ pre[t].add.valid /\ pre[t].add.mb = 5
        /\ pre[t].add.pool # <<>>
        /\ Len(pre[t].pool) = Len(pre[t].add.pool) + 1
        /\ Len(pre[t].pool[Len(pre[t].pool)]) = 3

\* What int() makes of thread t's parameter key, default when it is absent.
ArgInt(t, key, default) == ParseInt(ArgsGet(frame[t].args, key, Str(default)))

\* Thread t's request has passed its checks and acquired the lock as op.
Took(t, op) == frame[t].op = op /\ pre[t].took

\* C4 as stated: a Converge that found a total below its target and succeeded
\* answers as a Grow of the difference with the default chunk answers: that
\* Grow passes its checks, and the total is the total found plus the difference.
C4_ConvergeUpIsGrow ==
    \A t \in Threads :
        (/\ Done(t, "set") /\ pre[t].took /\ resp[t].ok
         /\ frame[t].target > CurrentMb(pre[t].pool)) =>
            /\ AddCheck(Query(Str(frame[t].target - CurrentMb(pre[t].pool)), NoText)) = ""
            /\ resp[t].total_mb = CurrentMb(pre[t].pool)
                                    + (frame[t].target - CurrentMb(pre[t].pool))

\* C5: a Converge(target) that found a total above its target leaves a total
\* of at most target, and a pool that is the pool it found with whole blocks
\* popped from its end (no block left has changed its size); Converge(600) on
\* the empty pool gives exactly 600.
C5_ConvergeDown ==
    \A t \in Threads :
        /\ (pc[t] = "set_total" /\ frame[t].target < CurrentMb(pre[t].pool)) =>
            /\ CurrentMb(chunks) <= frame[t].target
            /\ IsPoolPrefix(chunks, pre[t].pool)
        /\ (Done(t, "set") /\ pre[t].took
                /\ frame[t].target < CurrentMb(pre[t].pool)) =>
            /\ resp[t].ok
            /\ resp[t].total_mb <= frame[t].target
        /\ (Done(t, "set") /\ pre[t].took /\ resp[t].ok
                /\ pre[t].pool = <<>> /\ frame[t].target = 600) =>
            resp[t].total_mb = 600

\* A Converge(200) has returned that found the 600 MB of a Converge(600) on
\* the empty pool: 75 blocks of 8 MB, of which it popped 50.
C5_Witness ==
    \E t \in Threads :
        /\ Done(t, "set") /\ resp[t].ok
        /\ frame[t].target = 200
        /\ Len(pre[t].pool) = 1 /\ Len(pre[t].pool[1]) = 75
        /\ CurrentMb(pre[t].pool) = 600
        /\ resp[t].total_mb = 200
        /\ Len(chunks[1]) = 25

\* C6: a Shrink(mb) with mb > 0 that finds a total of at most mb, the empty
\* pool included, empties the pool and succeeds, reporting total 0.
C6_ShrinkAll ==
    \A t \in Threads :
        (Took(t, "free") /\ frame[t].mb >= CurrentMb(pre[t].pool)) =>
            /\ pc[t] = "free_total" => chunks = <<>>
            /\ pc[t] = "done" =>
                /\ resp[t].ok /\ resp[t].status = 200
                /\ resp[t].total_mb = 0

\* A Shrink has returned that asked for more than the total of the two groups
\* it found.
C6_Witness ==
    \E t \in Threads :
        /\ Done(t, "free") /\ resp[t].ok
        /\ Len(pre[t].pool) = 2
        /\ frame[t].mb > CurrentMb(pre[t].pool)
        /\ chunks = <<>>

\* C7: Clear leaves the pool without groups, whatever it found, and reports
\* total 0.
C7_Clear ==
    \A t \in Threads :
        /\ pc[t] = "clear_total" => (Len(chunks) = 0 /\ CurrentMb(chunks) = 0)
        /\ Done(t, "clear") =>
            /\ resp[t].ok /\ resp[t].status = 200
            /\ resp[t].total_mb = 0

\* A Clear has returned that found two groups.
C7_Witness ==
    \E t \in Threads :
        /\ Done(t, "clear") /\ resp[t].ok
        /\ Len(pre[t].pool) = 2
        /\ chunks = <<>>

\* C8: a Converge(target) that finds a total equal to its target leaves the
\* pool as it found it, reports that total and carries the note; a Converge
\* that finds another total, or is rejected, carries no note. (Checked with one
\* thread: chunks at the return is the pool the handler left.)
C8_ConvergeEqual ==
    \A t \in Threads :
        Done(t, "set") =>
            /\ (pre[t].took /\ frame[t].target = CurrentMb(pre[t].pool)) =>
                /\ resp[t].ok /\ resp[t].status = 200
                /\ resp[t].total_mb = frame[t].target
                /\ resp[t].note = NOTE_MET
                /\ chunks = pre[t].pool
            /\ resp[t].note = NOTE_MET =>
                (pre[t].took /\ frame[t].target = CurrentMb(pre[t].pool))

\* A Converge(10) has returned with the note, on a pool of 10 MB in two blocks.
C8_Witness ==
    \E t \in Threads :
        /\ Done(t, "set")
        /\ resp[t].note = NOTE_MET
        /\ frame[t].target = 10
        /\ chunks = << <<8, 2>> >>

\* Texts that are no integer literal.
NonIntegerTexts ==
    { <<>>, Text(<<"x">>), Text(<<"3", ".", "5">>), Text(<<"1", "e", "1">>),
      Text(<<"0", "x", "5">>), FiveThenControl, TooManyDigits }

\* Thread t's request names a parameter that is no integer, or one out of the
\* range its handler asks for.
InvalidArgument(t) ==
    LET m == ArgInt(t, "mb", IF frame[t].op = "add" THEN ADD_MB_DEFAULT ELSE ZERO_MB_DEFAULT)
        c == ArgInt(t, "chunk", CHUNK_MB_DEFAULT)
        NonInteger(key) == \E p \in frame[t].args : p[1] = key /\ p[2] \in NonIntegerTexts
    IN  CASE frame[t].op = "add" ->
                \/ NonInteger("mb") \/ NonInteger("chunk")
                \/ (m.ok /\ m.val <= 0) \/ (c.ok /\ c.val <= 0)
          [] frame[t].op = "set" -> NonInteger("mb") \/ (m.ok /\ m.val < 0)
          [] frame[t].op = "free" -> NonInteger("mb") \/ (m.ok /\ m.val <= 0)
          [] OTHER -> FALSE

\* An invalid request has returned a 400 response and never took the lock.
C9_Rejected ==
    \A t \in Threads :
        (pc[t] # "idle" /\ InvalidArgument(t)) =>
            /\ pc[t] = "done"
            /\ resp[t].status = 400 /\ ~resp[t].ok
            /\ resp[t].error \in {ERR_POSITIVE, ERR_NONNEG, ERR_INTEGER}
            /\ ~pre[t].took

\* A handler that returns in its first step leaves the pool and the lock alone.
RejectionChangesNothing ==
    \A t \in Threads :
        (pc[t] = "idle" /\ pc'[t] = "done") => (chunks' = chunks /\ mem_lock' = mem_lock)

\* C9: a Grow with mb <= 0 or chunk <= 0, a Shrink with mb <= 0, a Converge
\* with target < 0 and any of them with a parameter that is no integer return
\* a 400 response at once: the request never takes the lock, and the step that
\* rejects it leaves the pool as it was.
C9_InvalidArgument == []C9_Rejected /\ [][RejectionChangesNothing]_vars

\* A Shrink whose mb is no integer was rejected while the pool held a group.
C9_Witness ==
    \E t \in Threads :
        /\ Done(t, "free")
        /\ frame[t].args = Query(Text(<<"0", "x", "5">>), NoText)
        /\ resp[t] = ErrorResp(ERR_INTEGER)
        /\ chunks # <<>>

\* The state part of C10: what a Grow above, and at, the ceiling answers.
C10_Ceiling ==
    \A t \in Threads :
        LET m == ArgInt(t, "mb", ADD_MB_DEFAULT)
            c == ArgInt(t, "chunk", CHUNK_MB_DEFAULT)
        IN  /\ (frame[t].op = "add" /\ pc[t] # "idle" /\ m.ok /\ c.ok /\ c.val > 0
                    /\ m.val > 4096) =>
                /\ pc[t] = "done"
                /\ resp[t] = ErrorResp(ERR_LIMIT)
                /\ ~pre[t].took
            /\ (frame[t].op = "add" /\ pc[t] # "idle" /\ m.ok /\ c.ok /\ c.val > 0
                    /\ m.val = 4096) =>
                /\ resp[t].status # 400
                /\ pc[t] = "done" => (resp[t].ok \/ resp[t] = UnhandledResp)
            /\ pc[t] = "add_total" => SumSeq(chunks[Len(chunks)]) <= 4096
            /\ (Done(t, "add") /\ resp[t].ok) => resp[t].added_mb <= 4096

\* C10: a Grow with mb above 4096 is rejected with the limit error, never
\* takes the lock, and the step that rejects it leaves the pool as it was; a
\* Grow with mb = 4096 is not rejected; the group a Grow appends holds at most
\* 4096 MB.
C10_GrowCeiling == []C10_Ceiling /\ [][RejectionChangesNothing]_vars

\* A Grow(4097) was rejected with the limit error on a pool that holds the
\* 4096 MB of an accepted Grow(4096), in 512 blocks of 8 MB.
C10_Witness ==
    \E t \in Threads :
        /\ Done(t, "add")
        /\ resp[t] = ErrorResp(ERR_LIMIT)
        /\ Len(chunks) = 1 /\ Len(chunks[1]) = 512
        /\ CurrentMb(chunks) = 4096
        /\ lastAdd.valid /\ lastAdd.mb = 4096

\* No group of pool p is empty.
NoEmptyGroup(p) == \A i \in 1..Len(p) : p[i] # <<>>

\* C11: whenever no handler holds the lock, no group of the pool is empty: a
\* group emptied by Shrink or Converge is removed before the lock is released,
\* and Grow and Converge append no group without blocks.
C11_NoEmptyGroup == mem_lock = NoThread => NoEmptyGroup(chunks)

\* A Converge has returned that found two groups, emptied the second and
\* popped blocks of the first; the lock is free.
C11_Witness ==
    \E t \in Threads :
        /\ mem_lock = NoThread
        /\ Done(t, "set") /\ resp[t].ok
        /\ Len(pre[t].pool) = 2
        /\ Len(chunks) = 1
        /\ Len(chunks[1]) < Len(pre[t].pool[1])

\* Thread t is inside the body of a "with _mem_lock:" block.
InCritical(t) ==
    pc[t] \in {"add_append", "add_total",
               "set_curr", "set_alloc", "set_append", "set_outer", "set_inner",
               "set_prune", "set_total",
               "free_outer", "free_inner", "free_prune", "free_total",
               "clear_clear", "clear_total", "status_read"}

\* The pool is between complete operations as seen by thread t: t holds the
\* lock, no other thread is inside a critical section, no group is empty.
Settled(t) ==
    /\ mem_lock = t
    /\ \A u \in Threads \ {t} : ~InCritical(u)
    /\ NoEmptyGroup(chunks)

\* Thread t reads the pool in this step: Converge reads the current total, or
\* a handler computes the total (and group count) of its answer.
ReadsPool(t) ==
    \/ pc[t] = "set_curr" /\ frame'[t].curr = CurrentMb(chunks)
    \/ /\ pc[t] \in {"add_total", "set_total", "free_total", "clear_total"}
       /\ resp'[t].ok
       /\ resp'[t].total_mb = CurrentMb(chunks)
    \/ /\ pc[t] = "status_read"
       /\ resp'[t].status = 200
       /\ resp'[t].allocated_mb = CurrentMb(chunks)
       /\ resp'[t].groups = Len(chunks)

\* C12: with concurrent requests, a thread inside a critical section holds
\* the lock, the pool changes only in a step of the thread holding it, and
\* every value a handler reads from the pool (Converge's current total, the
\* totals returned by Grow, Shrink, Converge and Clear, Query's total and
\* group count, both in one step) is read from a pool between complete
\* operations: nobody else is part-way through it and no emptied group is in it.
C12_NoPartialObservation ==
    /\ [](\A t \in Threads : InCritical(t) => mem_lock = t)
    /\ [][\A t \in Threads :
            /\ pc[t] \in {"set_curr", "add_total", "set_total", "free_total",
                          "clear_total", "status_read"} /\ pc'[t] # pc[t]
                  => Settled(t) /\ ReadsPool(t)
            /\ (chunks' # chunks /\ pc'[t] # pc[t])
                  => mem_lock = t /\ InCritical(t) /\ mem_lock' = t
         ]_vars

\* A Query waits for the lock while a Shrink is part-way: it has popped the
\* blocks of the last group and the emptied group is still in the pool.
C12_Witness ==
    \E t, u \in Threads :
        /\ pc[t] = "status_lock"
        /\ pc[u] = "free_prune"
        /\ mem_lock = u
        /\ chunks # <<>> /\ chunks[Len(chunks)] = <<>>

\* C13 as stated: a request whose block allocation failed, in Grow or in
\* Converge-up, returns a structured rejection (an error answered by the
\* handler, status 400), never an exception that left the handler.
C13_AllocationFailureReported ==
    \A t \in Threads :
        (pc[t] = "done" /\ frame[t].op \in {"add", "set"}) =>
            /\ resp[t] # UnhandledResp
            /\ resp[t].status \in {200, 400}

\* Thread t's allocation fails in this step.
AllocFails(t) == resp[t] # UnhandledResp /\ resp'[t] = UnhandledResp

\* C14: when the allocation of a block fails while a group is being built, in
\* Grow or in Converge-up, the step leaves the pool as it is, and for Converge
\* that is the pool found when the lock was taken (no group, partial or empty,
\* was appended, and no group is empty); the failing thread does not hold the
\* lock afterwards, and a request that ended so never holds it.
C14_FailedAllocationLeavesPool ==
    /\ [][\A t \in Threads : AllocFails(t) =>
            /\ chunks' = chunks
            /\ NoEmptyGroup(chunks')
            /\ frame[t].op = "set" => chunks' = pre[t].pool
            /\ frame[t].op = "add" => ~pre[t].took
            /\ mem_lock' # t
         ]_vars
    /\ [](\A t \in Threads :
            (pc[t] = "done" /\ resp[t] = UnhandledResp) => mem_lock # t)

\* A Converge-up on a pool that is not empty has failed after allocating some
\* of its blocks, and the lock is free.
C14_Witness ==
    \E t \in Threads :
        /\ Done(t, "set") /\ resp[t] = UnhandledResp
        /\ frame[t].remain > 0
        /\ frame[t].remain < frame[t].target - frame[t].curr
        /\ chunks # <<>> /\ chunks = pre[t].pool
        /\ mem_lock = NoThread

\* C15 as stated: while a Grow is allocating its blocks (from its first
\* allocation until the allocation completes or fails), no other request is
\* inside a critical section reading or changing the pool, and the pool does
\* not change.
C15_GrowExcludesOthers ==
    \A t, u \in Threads :
        (t # u /\ pc[t] = "add_alloc") => ~InCritical(u)

\* The blocks of pool p in group order, oldest first.
RECURSIVE Flat(_)
Flat(p) == IF p = <<>> THEN <<>> ELSE Flat(SubSeq(p, 1, Len(p) - 1)) \o p[Len(p)]

\* Sequence a is the beginning of sequence b.
IsSeqPrefix(a, b) == Len(a) <= Len(b) /\ SubSeq(b, 1, Len(a)) = a

\* Thread t is a Shrink, or a Converge that read a total above its target,
\* and has taken the lock.
Shrinking(t) ==
    \/ Took(t, "free")
    \/ Took(t, "set") /\ pc[t] # "set_curr" /\ frame[t].curr > frame[t].target

\* C16: at every step of a Shrink or Converge-down, and when it has returned,
\* the blocks of the pool in group order are a beginning of the blocks it
\* found: blocks go last first, a block of an older group only after all
\* blocks of the newer groups, and every group but the last one left is the
\* group found at that position, whole.
C16_LifoPrefix ==
    \A t \in Threads :
        Shrinking(t) =>
            /\ IsSeqPrefix(Flat(chunks), Flat(pre[t].pool))
            /\ Len(chunks) <= Len(pre[t].pool)
            /\ \A i \in 1..Len(chunks) :
                 /\ IsSeqPrefix(chunks[i], pre[t].pool[i])
                 /\ i < Len(chunks) => chunks[i] = pre[t].pool[i]

\* A Shrink has returned that found two groups, the older one of blocks of
\* different sizes: it freed the newer group and the last blocks of the older.
C16_Witness ==
    \E t \in Threads :
        /\ Done(t, "free") /\ resp[t].ok
        /\ Len(pre[t].pool) = 2
        /\ pre[t].pool[1][1] # pre[t].pool[1][Len(pre[t].pool[1])]
        /\ Len(chunks) = 1
        /\ Len(chunks[1]) < Len(pre[t].pool[1])

\* What a Shrink, or a Converge that read a total above its target, has to free.
Asked(t) == IF frame[t].op = "free" THEN frame[t].mb ELSE frame[t].curr - frame[t].target

\* Thread t's Shrink or Converge-down has returned its answer.
Shrunk(t) ==
    /\ pc[t] = "done" /\ resp[t].ok
    /\ Shrinking(t)

\* What it freed: the total found minus the total answered.
Freed(t) == CurrentMb(pre[t].pool) - resp[t].total_mb

\* The last block it freed: the first of the blocks found that is not left.
LastFreed(t) == Flat(pre[t].pool)[Len(Flat(chunks)) + 1]

\* C17: a Shrink(mb), or a Converge-down with mb = current - target, frees
\* F >= min(mb, total found), and when it freed a block, F less the last block
\* freed is below mb: it frees the least number of whole blocks covering mb.
C17_LeastWholeBlocks ==
    \A t \in Threads :
        Shrunk(t) =>
            /\ Freed(t) >= Min(Asked(t), CurrentMb(pre[t].pool))
            /\ Freed(t) > 0 =>
                 /\ Len(Flat(chunks)) < Len(Flat(pre[t].pool))
                 /\ Freed(t) - LastFreed(t) < Asked(t)

\* A Shrink has returned that freed more than asked, from two groups, and
\* left blocks in the pool.
C17_Witness ==
    \E t \in Threads :
        /\ Done(t, "free") /\ resp[t].ok
        /\ Freed(t) > frame[t].mb
        /\ Len(pre[t].pool) = 2
        /\ chunks # <<>>

\* ceil(mb / chunk)
CeilDiv(mb, chunk) == (mb + chunk - 1) \div chunk

\* The group of the closed form: ceil(mb / chunk) blocks, all of size chunk but
\* the last, which takes what is left.
ClosedGroup(mb, chunk) ==
    [i \in 1..CeilDiv(mb, chunk) |->
        IF i < CeilDiv(mb, chunk) THEN chunk ELSE mb - chunk * (CeilDiv(mb, chunk) - 1)]

\* C18: the group a valid Grow(mb, chunk) has built is ceil(mb / chunk) blocks,
\* each of size chunk but the last, of size mb - chunk * (ceil(mb / chunk) - 1),
\* which is in 1..chunk; every block of the pool is at least 1 MB; and the
\* total an operation answers is the sum of the sizes of the pool's blocks.
C18_BlocksOfGroup ==
    /\ \A t \in Threads :
         (frame[t].op = "add" /\ pc[t] \in {"add_lock", "add_append", "add_total", "done"}
            /\ resp[t] # UnhandledResp /\ AddCheck(frame[t].args) = "") =>
              /\ frame[t].blocks = ClosedGroup(frame[t].mb, frame[t].chunk)
              /\ Len(frame[t].blocks) = CeilDiv(frame[t].mb, frame[t].chunk)
              /\ frame[t].blocks[Len(frame[t].blocks)] \in 1..frame[t].chunk
    /\ \A i \in 1..Len(Flat(chunks)) : Flat(chunks)[i] >= 1
    /\ \A t \in Threads :
         (pc[t] = "done" /\ resp[t].ok) => resp[t].total_mb = SumSeq(Flat(chunks))

\* A Grow has returned whose mb is not a multiple of its chunk: its group has
\* three blocks or more and the last is smaller than the chunk.
C18_Witness ==
    \E t \in Threads :
        /\ Done(t, "add") /\ resp[t].ok
        /\ Len(frame[t].blocks) >= 3
        /\ frame[t].blocks[Len(frame[t].blocks)] < frame[t].chunk
        /\ chunks # <<>> /\ chunks[Len(chunks)] = frame[t].blocks

\* Thread t is in a request that has not returned.
Running(t) == pc[t] \notin {"idle", "done"}

\* C19: a thread whose request has returned, by any path (a normal return,
\* Converge's early return, an allocation failure inside Converge's critical
\* section, a rejection), does not hold the lock; while a request is running
\* some thread can take a step (no deadlock); and under fair scheduling every
\* request that is running eventually returns (every loop terminates).
C19_LockReleasedAndProgress ==
    /\ [](\A t \in Threads : ~Running(t) => mem_lock # t)
    /\ []((\E t \in Threads : Running(t)) => (\E t \in Threads : ENABLED Step(t)))
    /\ \A t \in Threads : Running(t) ~> pc[t] = "done"

\* A Converge has returned early, its target already met, and meanwhile
\* another thread has taken the lock.
C19_Witness ==
    \E t, u \in Threads :
        /\ t # u
        /\ Done(t, "set") /\ resp[t].note = NOTE_MET
        /\ mem_lock = u /\ InCritical(u)

\* C20: Converge reads the total and acts on it in one critical section: the
\* total it read is the total of the pool found when it took the lock, and
\* under any interleaving with other requests a Converge(target) that
\* succeeded answers exactly target when target is at or above the total it
\* read, and at most target when target is below it.
C20_ConvergeReadAndAct ==
    \A t \in Threads :
        /\ (Took(t, "set") /\ pc[t] # "set_curr") =>
              frame[t].curr = CurrentMb(pre[t].pool)
        /\ (Done(t, "set") /\ resp[t].ok) =>
              /\ frame[t].target >= frame[t].curr => resp[t].total_mb = frame[t].target
              /\ frame[t].target < frame[t].curr => resp[t].total_mb <= frame[t].target

\* A Converge-up on a pool that was not empty has answered its target while
\* another thread's Grow, its group built, waits to append it.
C20_Witness ==
    \E t, u \in Threads :
        /\ Done(t, "set") /\ resp[t].ok
        /\ 0 < frame[t].curr /\ frame[t].curr < frame[t].target
        /\ resp[t].total_mb = frame[t].target
        /\ pc[u] = "add_lock" /\ frame[u].blocks # <<>>

====
